---- MODULE Spec2Model ----
(***************************************************************************)
(* Model of the Flask backend "Controle de Producao" (src/src/main.py):    *)
(* the in-memory record store (salvar_registro, listar_registros,          *)
(* obter_registro) served by concurrent request threads, and the PDF       *)
(* report endpoint (gerar_pdf) with its assembler _build_pdf_elements.     *)
(*                                                                         *)
(* JSON values are tagged records: [t |-> "null"], [t |-> "num", v |-> n], *)
(* [t |-> "str", v |-> <<chars>>], [t |-> "list", v |-> <<values>>] and    *)
(* [t |-> "obj", v |-> record].  A Python str is the tuple of its          *)
(* characters, so that split(':'), int() and the f-string formats are      *)
(* computed character by character.                                        *)
(***************************************************************************)
EXTENDS Integers, Sequences, FiniteSets, TLC

VARIABLES
    registros_producao,  \* the module-level list, main.py line 70
    pc,                  \* per request thread: position in its handler
    dados,               \* per request thread: local of salvar_registro
    registro_id,         \* per request thread: local of salvar_registro
    last,                \* the most recent request answered, with its response
                         \* and the length the list had when it was answered
    submitted,           \* history: bodies of accepted saves, in arrival order
    ppc,                 \* position of the gerar_pdf handler
    pdados,              \* gerar_pdf: the parsed JSON body
    elementos,           \* gerar_pdf: what _build_pdf_elements returned
    outcome              \* gerar_pdf: how the request ended

storeVars == <<registros_producao, pc, dados, registro_id, last, submitted>>
pdfVars == <<ppc, pdados, elementos, outcome>>
vars == <<registros_producao, pc, dados, registro_id, last, submitted,
          ppc, pdados, elementos, outcome>>

(***************************************************************************)
(* Bounds of the model.                                                    *)
(***************************************************************************)
NumThreads == 2
MaxRegistros == 3
MaxParadas == 2

Threads == 1..NumThreads

(***************************************************************************)
(* JSON values and Python truthiness.                                      *)
(***************************************************************************)
Null == [t |-> "null"]
Num(n) == [t |-> "num", v |-> n]
Str(s) == [t |-> "str", v |-> s]
List(xs) == [t |-> "list", v |-> xs]
Obj(r) == [t |-> "obj", v |-> r]
EmptyObj == [t |-> "obj", v |-> <<>>]

\* Faulty variant of Truthy: "is not None" in place of truthiness.
TruthyEmptyIsTrue(x) ==
    x.t # "null"

\* bool(x) as the handlers' "if not dados" / "if valor" / "x or y" use it.
Truthy(x) ==
    CASE x.t = "null" -> FALSE
      [] x.t = "num" -> x.v # 0
      [] x.t = "str" -> Len(x.v) > 0
      [] x.t = "list" -> Len(x.v) > 0
      [] x.t = "obj" -> DOMAIN x.v # {}

\* Python's "a or b".
PyOr(a, b) == IF Truthy(a) THEN a ELSE b

\* dict.get(k, default); dict.get(k) is DictGet(d, k, Null).
DictGet(d, k, default) == IF k \in DOMAIN d.v THEN d.v[k] ELSE default

(***************************************************************************)
(* Python str, int() and format helpers.  The alphabet of the bounded      *)
(* inputs has digits, letters, ':' and '-', and no whitespace, '+', '_'    *)
(* or '.', so int() accepts exactly an optional '-' followed by digits.    *)
(***************************************************************************)
Digits == <<"0", "1", "2", "3", "4", "5", "6", "7", "8", "9">>

IsDigit(c) == \E i \in 1..10 : Digits[i] = c

DigitVal(c) == (CHOOSE i \in 1..10 : Digits[i] = c) - 1

\* str.split(sep) for a one-character separator: the list of the pieces.
RECURSIVE SplitFrom(_, _, _, _)
SplitFrom(s, sep, i, cur) ==
    IF i > Len(s) THEN <<cur>>
    ELSE IF s[i] = sep THEN <<cur>> \o SplitFrom(s, sep, i + 1, <<>>)
    ELSE SplitFrom(s, sep, i + 1, Append(cur, s[i]))

Split(s, sep) == SplitFrom(s, sep, 1, <<>>)

RECURSIVE DigitsVal(_, _, _)
DigitsVal(s, i, acc) ==
    IF i > Len(s) THEN acc ELSE DigitsVal(s, i + 1, acc * 10 + DigitVal(s[i]))

AllDigits(s) == Len(s) > 0 /\ \A i \in 1..Len(s) : IsDigit(s[i])

\* int(x) for a str x succeeds or raises ValueError.
IntOk(s) ==
    \/ AllDigits(s)
    \/ Len(s) > 1 /\ s[1] = "-" /\ AllDigits(Tail(s))

IntVal(s) ==
    IF s[1] = "-" THEN 0 - DigitsVal(Tail(s), 1, 0) ELSE DigitsVal(s, 1, 0)

\* str(n) for an int n >= 0.
RECURSIVE NatToChars(_)
NatToChars(n) ==
    IF n < 10 THEN <<Digits[n + 1]>>
    ELSE Append(NatToChars(n \div 10), Digits[(n % 10) + 1])

IntToChars(n) == IF n < 0 THEN <<"-">> \o NatToChars(0 - n) ELSE NatToChars(n)

\* f"{n:02d}": zero-padded to a width of two, the sign counted in the width.
Fmt02d(n) ==
    LET c == IntToChars(n) IN IF Len(c) < 2 THEN <<"0">> \o c ELSE c

\* lines 277-279 and 310-312: f"{hrs:02d}:{mins_rem:02d}" of // 60 and % 60
\* (Python floors, as \div and % do).
FmtHHMM(mins) == Fmt02d(mins \div 60) \o <<":">> \o Fmt02d(mins % 60)

\* round(num / den) to the nearest integer for den > 0, a tie to the even
\* neighbour, as the "f" format rounds the exact value it is given.
RoundDiv(num, den) ==
    LET q == num \div den
        r == num % den
    IN IF 2 * r < den THEN q
       ELSE IF 2 * r > den THEN q + 1
       ELSE IF q % 2 = 0 THEN q ELSE q + 1

\* f"{x:.2f}" of the value h / 100, h an integer number of hundredths.
FmtHundredths(h) ==
    LET a == IF h < 0 THEN 0 - h ELSE h
    IN (IF h < 0 THEN <<"-">> ELSE <<>>) \o NatToChars(a \div 100) \o <<".">>
           \o <<Digits[((a \div 10) % 10) + 1], Digits[(a % 10) + 1]>>

(***************************************************************************)
(* Record store.                                                           *)
(***************************************************************************)
RecA == Obj([operador |-> Str(<<"A">>)])
RecB == Obj([operador |-> Str(<<"B">>)])

\* What request.get_json(silent=True) can hand to salvar_registro: None for
\* an absent or unparsable body, otherwise the parsed JSON value.
SaveBodies == {Null, EmptyObj, List(<<>>), RecA, RecB}

NoLast == [endpoint |-> "none"]

\* Faulty variant of NextId: the + 1 left out.
NextIdOffByOne(regs) == Len(regs)

\* line 112
NextId(regs) == Len(regs) + 1

\* lines 113-117; the timestamp is wall-clock time and is not modelled.
Registro(id, d) == [id |-> id, dados |-> d]

\* line 141: next((r for r in registros_producao if r["id"] == id), None)
RECURSIVE FindById(_, _, _)
FindById(regs, id, i) ==
    IF i > Len(regs) THEN Null
    ELSE IF regs[i].id = id THEN Obj(regs[i])
    ELSE FindById(regs, id, i + 1)

Resp400 == [status |-> 400, success |-> FALSE, error |-> "Nenhum dado fornecido"]
Resp404 == [status |-> 404, success |-> FALSE, error |-> "Registro nao encontrado"]

\* A request thread picks up POST /api/salvar-registro; lines 106-108.
SalvarRegistroStart(t, body) ==
    /\ pc[t] = "idle"
    /\ Len(registros_producao) < MaxRegistros
    /\ IF ~Truthy(body)
       THEN /\ last' = [endpoint |-> "salvar-registro", thread |-> t,
                        body |-> body, at |-> Len(registros_producao),
                        resp |-> Resp400]
            /\ UNCHANGED <<pc, dados, submitted>>
       ELSE /\ pc' = [pc EXCEPT ![t] = "salvar_len"]
            /\ dados' = [dados EXCEPT ![t] = body]
            /\ submitted' = Append(submitted, body)
            /\ UNCHANGED last
    /\ UNCHANGED <<registros_producao, registro_id>>
    /\ UNCHANGED pdfVars

\* line 112: registro_id = len(registros_producao) + 1
SalvarRegistroLen(t) ==
    /\ pc[t] = "salvar_len"
    /\ registro_id' = [registro_id EXCEPT ![t] = NextId(registros_producao)]
    /\ pc' = [pc EXCEPT ![t] = "salvar_append"]
    /\ UNCHANGED <<registros_producao, dados, last, submitted>>
    /\ UNCHANGED pdfVars

\* lines 113-125: build the record, append it, answer 201 with its id.
SalvarRegistroAppend(t) ==
    /\ pc[t] = "salvar_append"
    /\ registros_producao' =
           Append(registros_producao, Registro(registro_id[t], dados[t]))
    /\ last' = [endpoint |-> "salvar-registro", thread |-> t, body |-> dados[t],
                at |-> Len(registros_producao),
                resp |-> [status |-> 201, success |-> TRUE,
                          id |-> registro_id[t]]]
    /\ pc' = [pc EXCEPT ![t] = "idle"]
    /\ dados' = [dados EXCEPT ![t] = Null]
    /\ registro_id' = [registro_id EXCEPT ![t] = 0]
    /\ UNCHANGED submitted
    /\ UNCHANGED pdfVars

\* lines 129-135
ListarRegistros(t) ==
    /\ pc[t] = "idle"
    /\ last' = [endpoint |-> "listar-registros", thread |-> t,
                at |-> Len(registros_producao),
                resp |-> [status |-> 200, success |-> TRUE,
                          registros |-> registros_producao,
                          total |-> Len(registros_producao)]]
    /\ UNCHANGED <<registros_producao, pc, dados, registro_id, submitted>>
    /\ UNCHANGED pdfVars

\* lines 139-144
ObterRegistro(t, id) ==
    /\ pc[t] = "idle"
    /\ LET registro == FindById(registros_producao, id, 1)
       IN last' = [endpoint |-> "registro", thread |-> t, id |-> id,
                   at |-> Len(registros_producao),
                   resp |-> IF registro.t = "null" THEN Resp404
                            ELSE [status |-> 200, success |-> TRUE,
                                  registro |-> registro.v]]
    /\ UNCHANGED <<registros_producao, pc, dados, registro_id, submitted>>
    /\ UNCHANGED pdfVars

AllIdle == \A t \in Threads : pc[t] = "idle"

Init ==
    /\ registros_producao = <<>>
    /\ pc = [t \in Threads |-> "idle"]
    /\ dados = [t \in Threads |-> Null]
    /\ registro_id = [t \in Threads |-> 0]
    /\ last = NoLast
    /\ submitted = <<>>
    /\ ppc = "idle"
    /\ pdados = Null
    /\ elementos = <<>>
    /\ outcome = [kind |-> "none"]

\* The threaded server of app.run (line 486): requests interleave freely.
Next ==
    \/ \E t \in Threads, body \in SaveBodies : SalvarRegistroStart(t, body)
    \/ \E t \in Threads : SalvarRegistroLen(t)
    \/ \E t \in Threads : SalvarRegistroAppend(t)
    \/ \E t \in Threads : ListarRegistros(t)
    \/ \E t \in Threads, id \in 0..(MaxRegistros + 1) : ObterRegistro(t, id)

Spec == Init /\ [][Next]_vars

\* Requests executed one after the other: a request starts only when no
\* other is in progress.
SeqNext ==
    \/ \E t \in Threads, body \in SaveBodies :
           AllIdle /\ SalvarRegistroStart(t, body)
    \/ \E t \in Threads : SalvarRegistroLen(t)
    \/ \E t \in Threads : SalvarRegistroAppend(t)
    \/ \E t \in Threads : AllIdle /\ ListarRegistros(t)
    \/ \E t \in Threads, id \in 0..(MaxRegistros + 1) :
           AllIdle /\ ObterRegistro(t, id)

SeqSpec == Init /\ [][SeqNext]_vars

(***************************************************************************)
(* The report assembler _build_pdf_elements (lines 147-375).  A call       *)
(* either returns the list of blocks or raises; each section below gives   *)
(* [raised |-> FALSE, blocks |-> ...] or [raised |-> TRUE, exc |-> ...].   *)
(* Table and Paragraph constructors of the PDF library are taken to        *)
(* accept any cell value.                                                  *)
(***************************************************************************)
Lit(text) == [t |-> "lit", v |-> text]      \* a str literal of the source
Raise(exc) == [raised |-> TRUE, exc |-> exc]
Blocks(bs) == [raised |-> FALSE, blocks |-> bs]

Title == [k |-> "Title", text |-> "<b>Controle Diario da Britagem / Moagem</b>"]
Spacer == [k |-> "Spacer"]
Heading(text) == [k |-> "Heading", text |-> text]
Paragraph(text) == [k |-> "Paragraph", text |-> text]
Table(name, rows) == [k |-> "Table", name |-> name, rows |-> rows]

Empty == Str(<<>>)
ZeroZero == Str(<<"0", "0", ":", "0", "0">>)
SemMotivo == Str(<<"S", "e", "m", " ", "m", "o", "t", "i", "v", "o">>)

\* str(x): a str is itself, an int its decimal digits; the repr of any
\* other value is kept unexpanded.
PyStr(x) ==
    CASE x.t = "str" -> x
      [] x.t = "num" -> Str(IntToChars(x.v))
      [] OTHER -> [t |-> "repr", v |-> x]

\* "for x in v: ... x.get(...)" (lines 214-219, 238-245, 356-361): v is
\* truthy here.  Iterating a str or a dict yields strs, which have no get
\* (AttributeError); a number is not iterable (TypeError); the items of a
\* list must all be dicts.
Items(v) ==
    IF v.t = "list"
    THEN IF \A i \in 1..Len(v.v) : v.v[i].t = "obj"
         THEN Blocks(v.v)
         ELSE Raise("AttributeError")
    ELSE IF v.t \in {"str", "obj"} THEN Raise("AttributeError")
    ELSE Raise("TypeError")

\* datetime.fromisoformat(valor).strftime("%d/%m/%Y") for the date-only
\* form YYYY-MM-DD, the only ISO form the bounded inputs contain.
DaysIn(y, m) ==
    IF m \in {4, 6, 9, 11} THEN 30
    ELSE IF m # 2 THEN 31
    ELSE IF (y % 4 = 0 /\ y % 100 # 0) \/ y % 400 = 0 THEN 29 ELSE 28

IsoDateOk(s) ==
    /\ Len(s) = 10
    /\ s[5] = "-" /\ s[8] = "-"
    /\ \A i \in {1, 2, 3, 4, 6, 7, 9, 10} : IsDigit(s[i])
    /\ LET y == DigitsVal(SubSeq(s, 1, 4), 1, 0)
           m == DigitsVal(SubSeq(s, 6, 7), 1, 0)
           d == DigitsVal(SubSeq(s, 9, 10), 1, 0)
       IN y >= 1 /\ m \in 1..12 /\ d >= 1 /\ d <= DaysIn(y, m)

\* lines 187-191
FormatData(valor) ==
    IF valor.t = "str" /\ IsoDateOk(valor.v)
    THEN Str(Fmt02d(DigitsVal(SubSeq(valor.v, 9, 10), 1, 0)) \o <<"/">>
             \o Fmt02d(DigitsVal(SubSeq(valor.v, 6, 7), 1, 0)) \o <<"/">>
             \o IntToChars(DigitsVal(SubSeq(valor.v, 1, 4), 1, 0)))
    ELSE valor

\* lines 175-182
campos_info ==
    << <<"operador", "Operador(es)">>, <<"visto", "Visto">>, <<"hp", "HP">>,
       <<"turno", "Turno">>, <<"data", "Data">>,
       <<"horasExtras", "Horas Extras">> >>

\* lines 183-192
RECURSIVE InfoRows(_, _)
InfoRows(d, i) ==
    IF i > Len(campos_info) THEN <<>>
    ELSE LET chave == campos_info[i][1]
             valor == DictGet(d, chave, Null)
         IN (IF Truthy(valor)
             THEN << <<Lit(campos_info[i][2]),
                       PyStr(IF chave = "data" THEN FormatData(valor)
                             ELSE valor)>> >>
             ELSE <<>>) \o InfoRows(d, i + 1)

\* lines 173-207
InfoSection(d) ==
    LET info_rows == InfoRows(d, 1)
    IN Blocks(IF info_rows # <<>> THEN <<Table("info", info_rows), Spacer>>
              ELSE <<>>)

SiloRow(silo) ==
    <<DictGet(silo, "nome", Empty), DictGet(silo, "estoque", Empty),
      DictGet(silo, "horasTrabalhadas", Empty)>>

\* lines 210-231
SilosSection(d) ==
    LET silos == PyOr(DictGet(d, "silos", Null), List(<<>>))
    IN IF ~Truthy(silos) THEN Blocks(<<>>)
       ELSE LET it == Items(silos)
                r == IF it.raised THEN it
                     ELSE Blocks([i \in 1..Len(it.blocks) |-> SiloRow(it.blocks[i])])
            IN IF r.raised THEN r
               ELSE Blocks(<<Heading("Estoque de Produto"),
                             Table("silos",
                                   << <<Lit("Silo"), Lit("Estoque (t)"),
                                        Lit("Horas Trabalhadas")>> >>
                                       \o r.blocks),
                             Spacer>>)

\* line 234
Paradas(d) == PyOr(DictGet(d, "paradas", Null), List(<<>>))

ParadaRow(p) ==
    <<DictGet(p, "inicio", Empty), DictGet(p, "fim", Empty),
      DictGet(p, "motivo", Empty), DictGet(p, "duracao", Empty),
      DictGet(p, "observacao", Empty)>>

\* Faulty variant of EmitParadas: the table built without the test.
EmitParadasAlways(paradas) == TRUE

\* line 235: if paradas
EmitParadas(paradas) == Truthy(paradas)

\* lines 235-257
ParadasSection(d) ==
    LET paradas == Paradas(d)
    IN IF ~EmitParadas(paradas) THEN Blocks(<<>>)
       ELSE LET it == Items(paradas)
                r == IF it.raised THEN it
                     ELSE Blocks([i \in 1..Len(it.blocks) |-> ParadaRow(it.blocks[i])])
            IN IF r.raised THEN r
               ELSE Blocks(<<Heading("Paradas Operacionais"),
                             Table("paradas",
                                   << <<Lit("Inicio"), Lit("Fim"), Lit("Motivo"),
                                        Lit("Duracao"), Lit("Observacao")>> >>
                                       \o r.blocks),
                             Spacer>>)

\* The entries of a truthy paradas value as the loops of lines 264 and
\* 306-309 see them.
ParadasItems(d) == Items(Paradas(d))

\* lines 265-270: the duration of one entry in minutes; any exception of
\* the split, the int() calls or the two-name unpacking gives 0.
ParadaMinutes(p) ==
    LET dur == DictGet(p, "duracao", ZeroZero)
    IN IF dur.t # "str" THEN 0
       ELSE LET parts == Split(dur.v, ":")
            IN IF \E i \in 1..Len(parts) : ~IntOk(parts[i]) THEN 0
               ELSE IF Len(parts) # 2 THEN 0
               ELSE IntVal(parts[1]) * 60 + IntVal(parts[2])

\* line 272
MotivoOf(p) == PyOr(DictGet(p, "motivo", SemMotivo), SemMotivo)

HasMotivo(motivos, mot) == \E i \in 1..Len(motivos) : motivos[i].mot = mot

\* Faulty variant of AddMotivo: motivos[mot] = minutes.
AddMotivoOverwrite(motivos, mot, minutes) ==
    IF HasMotivo(motivos, mot)
    THEN [i \in 1..Len(motivos) |->
             IF motivos[i].mot = mot THEN [mot |-> mot, mins |-> minutes]
             ELSE motivos[i]]
    ELSE Append(motivos, [mot |-> mot, mins |-> minutes])

\* line 273: motivos[mot] = motivos.get(mot, 0) + minutes, on a dict that
\* keeps its keys in insertion order.
AddMotivo(motivos, mot, minutes) ==
    IF HasMotivo(motivos, mot)
    THEN [i \in 1..Len(motivos) |->
             IF motivos[i].mot = mot
             THEN [mot |-> mot, mins |-> motivos[i].mins + minutes]
             ELSE motivos[i]]
    ELSE Append(motivos, [mot |-> mot, mins |-> minutes])

\* lines 262-273: the loop over the entries; a list or dict as reason is
\* unhashable and cannot be a key (TypeError).
RECURSIVE Acumula(_, _, _)
Acumula(ps, i, acc) ==
    IF i > Len(ps) THEN acc
    ELSE LET mot == MotivoOf(ps[i])
             minutes == ParadaMinutes(ps[i])
         IN IF mot.t \in {"list", "obj"} THEN Raise("TypeError")
            ELSE Acumula(ps, i + 1,
                         [raised |-> FALSE,
                          total_minutes |-> acc.total_minutes + minutes,
                          motivos |-> AddMotivo(acc.motivos, mot, minutes)])

Distribuicao(ps) ==
    Acumula(ps, 1, [raised |-> FALSE, total_minutes |-> 0, motivos |-> <<>>])

\* line 274
EmitDistrib(total_minutes) == total_minutes > 0

\* Faulty variant of PercHundredths: the * 100 left out.
PercNotScaled(mins, total_minutes) == RoundDiv(mins * 100, total_minutes)

\* lines 280-281: f"{perc:.2f}%" of perc = (mins / total_minutes) * 100,
\* as the number of hundredths of a percent it prints.
PercHundredths(mins, total_minutes) == RoundDiv(mins * 10000, total_minutes)

\* lines 276-281
DistribRow(m, total_minutes) ==
    <<m.mot, Str(FmtHHMM(m.mins)),
      Str(FmtHundredths(PercHundredths(m.mins, total_minutes)) \o <<"%">>)>>

\* lines 260-294
DistribSection(d) ==
    LET paradas == Paradas(d)
    IN IF ~Truthy(paradas) THEN Blocks(<<>>)
       ELSE LET it == ParadasItems(d)
            IN IF it.raised THEN it
               ELSE LET dist == Distribuicao(it.blocks)
                    IN IF dist.raised THEN dist
                       ELSE IF EmitDistrib(dist.total_minutes)
                       THEN Blocks(<<Heading("Distribuicao de Paradas"),
                                     Table("distrib",
                                           << <<Lit("Motivo"), Lit("Tempo"),
                                                Lit("%")>> >>
                                               \o [i \in 1..Len(dist.motivos) |->
                                                      DistribRow(dist.motivos[i],
                                                                 dist.total_minutes)]),
                                     Spacer>>)
                       ELSE Blocks(<<>>)

\* lines 306-309, one term of the sum: 0 for a falsy duration, otherwise
\* int(split[0]) * 60 + int(split[1]) with nothing caught.
ResumoMinutes(p) ==
    LET dur == DictGet(p, "duracao", Null)
    IN IF ~Truthy(dur) THEN [raised |-> FALSE, minutes |-> 0]
       ELSE IF dur.t # "str" THEN Raise("AttributeError")
       ELSE LET parts == Split(dur.v, ":")
            IN IF ~IntOk(parts[1]) THEN Raise("ValueError")
               ELSE IF Len(parts) < 2 THEN Raise("IndexError")
               ELSE IF ~IntOk(parts[2]) THEN Raise("ValueError")
               ELSE [raised |-> FALSE,
                     minutes |-> IntVal(parts[1]) * 60 + IntVal(parts[2])]

RECURSIVE ResumoSum(_, _, _)
ResumoSum(ps, i, acc) ==
    IF i > Len(ps) THEN [raised |-> FALSE, minutes |-> acc]
    ELSE LET r == ResumoMinutes(ps[i])
         IN IF r.raised THEN r ELSE ResumoSum(ps, i + 1, acc + r.minutes)

\* lines 304-312
TempoTotalParadas(ps) ==
    LET r == ResumoSum(ps, 1, 0)
    IN IF r.raised THEN r
       ELSE [raised |-> FALSE, value |-> Str(FmtHHMM(r.minutes))]

\* str.lower() on the letters that spell a float keyword.
Lower(c) ==
    CASE c = "I" -> "i" [] c = "N" -> "n" [] c = "F" -> "f" [] c = "T" -> "t"
      [] c = "Y" -> "y" [] c = "A" -> "a" [] c = "E" -> "e" [] OTHER -> c

LowerStr(s) == [i \in 1..Len(s) |-> Lower(s[i])]

NotAFloat == [ok |-> FALSE]

\* The float num / den, negated when neg is set.
Finite(neg, num, den) ==
    [ok |-> TRUE, kind |-> "fin", neg |-> neg, num |-> num, den |-> den]

RECURSIVE Pow10(_)
Pow10(n) == IF n = 0 THEN 1 ELSE 10 * Pow10(n - 1)

\* The pieces of s around the exponent marker, "e" in either case.
RECURSIVE SplitExp(_, _, _)
SplitExp(s, i, cur) ==
    IF i > Len(s) THEN <<cur>>
    ELSE IF s[i] \in {"e", "E"} THEN <<cur>> \o SplitExp(s, i + 1, <<>>)
    ELSE SplitExp(s, i + 1, Append(cur, s[i]))

\* float() of an unsigned str of the alphabet: "inf", "infinity" and "nan"
\* in any case, digits, or digits "e" exponent; anything else is a
\* ValueError.
FloatUnsigned(neg, s) ==
    LET low == LowerStr(s)
        parts == SplitExp(s, 1, <<>>)
    IN IF low \in {<<"i", "n", "f">>, <<"i", "n", "f", "i", "n", "i", "t", "y">>}
       THEN [ok |-> TRUE, kind |-> "inf", neg |-> neg]
       ELSE IF low = <<"n", "a", "n">> THEN [ok |-> TRUE, kind |-> "nan", neg |-> neg]
       ELSE IF AllDigits(s) THEN Finite(neg, DigitsVal(s, 1, 0), 1)
       ELSE IF Len(parts) = 2 /\ AllDigits(parts[1]) /\ IntOk(parts[2])
       THEN LET e == IntVal(parts[2])
                n == DigitsVal(parts[1], 1, 0)
            IN IF e >= 0 THEN Finite(neg, n * Pow10(e), 1)
               ELSE Finite(neg, n, Pow10(0 - e))
       ELSE NotAFloat

\* line 317: float(producao_total) for an int or a str of the alphabet.
FloatOf(x) ==
    IF x.t = "num" THEN Finite(x.v < 0, IF x.v < 0 THEN 0 - x.v ELSE x.v, 1)
    ELSE IF Len(x.v) > 1 /\ x.v[1] = "-" THEN FloatUnsigned(TRUE, Tail(x.v))
    ELSE FloatUnsigned(FALSE, x.v)

\* Faulty variant of FmtQuotient: the minutes not converted to hours.
FmtQuotientPerMinute(pt, total_min) ==
    CASE pt.kind = "nan" -> <<"n", "a", "n">>
      [] pt.kind = "inf" ->
             (IF pt.neg THEN <<"-">> ELSE <<>>) \o <<"i", "n", "f">>
      [] pt.kind = "fin" ->
             (IF pt.neg THEN <<"-">> ELSE <<>>)
                 \o FmtHundredths(RoundDiv(pt.num * 100, pt.den * total_min))

\* line 320: f"{pt / total_h:.2f}" for total_h = total_min / 60 > 0.
FmtQuotient(pt, total_min) ==
    CASE pt.kind = "nan" -> <<"n", "a", "n">>
      [] pt.kind = "inf" ->
             (IF pt.neg THEN <<"-">> ELSE <<>>) \o <<"i", "n", "f">>
      [] pt.kind = "fin" ->
             (IF pt.neg THEN <<"-">> ELSE <<>>)
                 \o FmtHundredths(RoundDiv(pt.num * 6000, pt.den * total_min))

ZeroZeroZero == Str(<<"0", ".", "0", "0">>)

\* lines 314-322
ProducaoPorHora(d, producao_total, tempo_efetivo) ==
    LET given == DictGet(d, "producaoPorHora", Null)
    IN IF ~(~Truthy(given) /\ Truthy(producao_total) /\ Truthy(tempo_efetivo))
       THEN given
       ELSE LET pt == IF producao_total.t \in {"num", "str"}
                      THEN FloatOf(producao_total) ELSE Finite(FALSE, 0, 1)
            IN IF ~pt.ok THEN ZeroZeroZero
               ELSE IF tempo_efetivo.t # "str" THEN ZeroZeroZero
               ELSE LET parts == Split(tempo_efetivo.v, ":")
                    IN IF (\E i \in 1..Len(parts) : ~IntOk(parts[i]))
                              \/ Len(parts) # 2
                       THEN ZeroZeroZero
                       ELSE LET total_min == IntVal(parts[1]) * 60
                                                 + IntVal(parts[2])
                            IN IF total_min > 0
                               THEN Str(FmtQuotient(pt, total_min))
                               ELSE ZeroZeroZero

\* lines 297-342
ResumoSection(d) ==
    LET tempo_efetivo == PyOr(DictGet(d, "tempoEfetivo", Null), ZeroZero)
        producao_total == PyOr(PyOr(DictGet(d, "toneladas", Null),
                                    DictGet(d, "producaoTotal", Null)), Empty)
        resumo == PyOr(DictGet(d, "resumoParadas", Null), EmptyObj)
        given_total == IF resumo.t = "obj"
                       THEN DictGet(resumo, "totalParadas", Null) ELSE Null
        given_tempo == IF resumo.t = "obj"
                       THEN DictGet(resumo, "tempoTotalParadas", Null) ELSE Null
        it == IF Truthy(Paradas(d)) THEN ParadasItems(d) ELSE Blocks(<<>>)
    IN IF it.raised THEN it
       ELSE LET total_paradas == IF given_total.t = "null"
                                 THEN Num(Len(it.blocks)) ELSE given_total
                tempo == IF given_tempo.t = "null"
                         THEN TempoTotalParadas(it.blocks)
                         ELSE [raised |-> FALSE, value |-> given_tempo]
            IN IF tempo.raised THEN tempo
               ELSE Blocks(<<Heading("Resumo Operacional"),
                             Table("resumo",
                                   << <<Lit("Tempo Efetivo"),
                                        Lit("Producao Total (t)"),
                                        Lit("Total de Paradas (Tempo)"),
                                        Lit("Producao/Hora")>>,
                                      <<tempo_efetivo,
                                        IF Truthy(producao_total)
                                        THEN PyStr(producao_total) ELSE Lit("-"),
                                        [t |-> "fstr",
                                         total_paradas |-> total_paradas,
                                         tempo_total_paradas |-> tempo.value],
                                        LET pph == ProducaoPorHora(
                                                d, producao_total, tempo_efetivo)
                                        IN IF Truthy(pph) THEN pph ELSE Lit("-")>> >>),
                             Spacer>>)

\* lines 345-349
ObsSection(d) ==
    LET obs_text == PyOr(DictGet(d, "observacoes", Null),
                         DictGet(d, "observacoes/atuacoes", Null))
    IN Blocks(IF Truthy(obs_text)
              THEN <<Heading("Observacoes / Atuacoes no Processo"),
                     Paragraph(PyStr(obs_text)), Spacer>>
              ELSE <<>>)

ChecklistRow(item) ==
    <<DictGet(item, "equipamento", Empty), DictGet(item, "situacao", Empty),
      DictGet(item, "observacao", Empty)>>

\* lines 352-373
ChecklistSection(d) ==
    LET checklist == PyOr(DictGet(d, "checklist", Null), List(<<>>))
    IN IF ~Truthy(checklist) THEN Blocks(<<>>)
       ELSE LET it == Items(checklist)
                r == IF it.raised THEN it
                     ELSE Blocks([i \in 1..Len(it.blocks) |->
                                     ChecklistRow(it.blocks[i])])
            IN IF r.raised THEN r
               ELSE Blocks(<<Heading("Checklist de Equipamentos"),
                             Table("checklist",
                                   << <<Lit("Equipamento"), Lit("Situacao"),
                                        Lit("Observacao")>> >>
                                       \o r.blocks),
                             Spacer>>)

\* The sections in the order the function builds them.
Sections(d) ==
    <<InfoSection(d), SilosSection(d), ParadasSection(d), DistribSection(d),
      ResumoSection(d), ObsSection(d), ChecklistSection(d)>>

RECURSIVE Concat(_, _)
Concat(secs, i) ==
    IF i > Len(secs) THEN <<>> ELSE secs[i].blocks \o Concat(secs, i + 1)

\* lines 147-375: the blocks, or the first exception raised on the way.
\* dados.get (line 184) needs a dict.
BuildPdfElements(d) ==
    IF d.t # "obj" THEN Raise("AttributeError")
    ELSE LET secs == Sections(d)
             bad == {i \in 1..Len(secs) : secs[i].raised}
         IN IF bad # {}
            THEN Raise(secs[CHOOSE i \in bad : \A j \in bad : i <= j].exc)
            ELSE [raised |-> FALSE,
                  elements |-> <<Title, Spacer>> \o Concat(secs, 1)]

(***************************************************************************)
(* The PDF endpoint gerar_pdf (lines 378-414).                             *)
(***************************************************************************)
Json400 == [kind |-> "json", status |-> 400, success |-> FALSE,
            error |-> "Nenhum dado fornecido"]
Json500 == [kind |-> "json", status |-> 500, success |-> FALSE,
            error |-> "Erro ao construir PDF"]
PdfFile == [kind |-> "pdf", status |-> 200, mimetype |-> "application/pdf"]
Unhandled(exc) == [kind |-> "exception", exc |-> exc]
NoOutcome == [kind |-> "none"]

(***************************************************************************)
(* The request bodies of the bounded model.                                *)
(***************************************************************************)
Absent == [t |-> "absent"]      \* marks a key left out of an object

Field(k, x) == IF x.t = "absent" THEN <<>> ELSE (k :> x)

Falha == Str(<<"F", "a", "l", "h", "a">>)
Limpeza == Str(<<"L", "i", "m", "p", "e", "z", "a">>)

MotivoOptions == {Absent, Empty, Falha, Limpeza}

DuracaoOptions ==
    {Absent,
     Str(<<"0", "1", ":", "3", "0">>), Str(<<"0", "0", ":", "3", "0">>),
     Str(<<"0", "0", ":", "2", "0">>), Str(<<"-", "1", ":", "0", "0">>),
     Str(<<"b", "a", "d">>), Str(<<"1", ":", "2", ":", "3">>), Str(<<"5">>),
     Num(5)}

Entries ==
    {Obj(Field("motivo", mot) @@ Field("duracao", dur)) :
         mot \in MotivoOptions, dur \in DuracaoOptions}

Logs == UNION {[1..n -> Entries] : n \in 0..MaxParadas}

ResumoOptions ==
    {Absent, Obj([tempoTotalParadas |-> Str(<<"0", "9", ":", "5", "9">>)])}

\* Objects that vary the stoppage log.
LogBodies ==
    {Obj(Field("paradas", List(log)) @@ Field("resumoParadas", resumo)) :
         log \in Logs, resumo \in ResumoOptions}

Alice == Str(<<"A", "l", "i", "c", "e">>)

InfoOptions ==
    {<<>>,
     [operador |-> Alice,
      data |-> Str(<<"2", "0", "2", "4", "-", "0", "3", "-", "0", "1">>)],
     [data |-> Str(<<"2", "0", "2", "3", "-", "0", "2", "-", "2", "9">>),
      hp |-> Num(7)]}

RowsOptions(k1, k2) ==
    {Absent, List(<<>>),
     List(<<Obj((k1 :> Str(<<"X">>)) @@ (k2 :> Num(5)))>>),
     List(<<Num(1)>>), Str(<<"x">>), Num(5)}

ProducaoOptions ==
    {<<>>,
     [tempoEfetivo |-> Str(<<"0", "1", ":", "3", "0">>), toneladas |-> Num(100)],
     [producaoTotal |-> Str(<<"b", "a", "d">>)],
     [tempoEfetivo |-> Str(<<"0", "0", ":", "0", "0">>), toneladas |-> Num(100),
      observacoes |-> Str(<<"o", "k">>)],
     [producaoPorHora |-> Num(40), resumoParadas |-> Str(<<"x">>)]}

OtherParadas ==
    {Absent, List(<<>>), Num(5), Str(<<"x">>), List(<<Num(1)>>),
     List(<<Obj([motivo |-> Falha, duracao |-> Str(<<"0", "1", ":", "3", "0">>)])>>),
     List(<<Obj([motivo |-> List(<<Num(1)>>)])>>)}

\* Objects that vary the other fields, over a few stoppage logs.
FieldBodies ==
    {Obj(info @@ Field("silos", silos) @@ Field("checklist", checklist)
             @@ prod @@ Field("paradas", paradas)) :
         info \in InfoOptions, silos \in RowsOptions("nome", "estoque"),
         checklist \in RowsOptions("equipamento", "situacao"),
         prod \in ProducaoOptions, paradas \in OtherParadas}

TempoEfetivoOptions ==
    {Absent, Num(5),
     Str(<<"0", "1", ":", "3", "0">>), Str(<<"0", "0", ":", "4", "5">>),
     Str(<<"0", "0", ":", "0", "0">>), Str(<<"-", "1", ":", "0", "0">>),
     Str(<<"2", "0", "1", ":", "0", "0">>), Str(<<"1", ":", "2", ":", "3">>),
     Str(<<"b", "a", "d">>), Str(<<"9", "0">>)}

ToneladasOptions ==
    {Absent, Empty, Num(0), Num(100), Num(0 - 1), List(<<Num(1)>>),
     Str(<<"1", "0", "0">>), Str(<<"b", "a", "d">>), Str(<<"-", "0">>),
     Str(<<"1", "e", "2">>), Str(<<"5", "E", "-", "1">>), Str(<<"1", "e">>),
     Str(<<"n", "a", "n">>), Str(<<"-", "I", "n", "f">>)}

ProducaoTotalOptions == {Absent, Num(50)}

ProducaoPorHoraOptions == {Absent, Num(0), Str(<<"4", "0">>)}

\* Objects that vary the inputs of the throughput cell.
ThroughputBodies ==
    {Obj(Field("tempoEfetivo", tempo) @@ Field("toneladas", ton)
             @@ Field("producaoTotal", prod) @@ Field("producaoPorHora", pph)) :
         tempo \in TempoEfetivoOptions, ton \in ToneladasOptions,
         prod \in ProducaoTotalOptions, pph \in ProducaoPorHoraOptions}

\* What request.get_json(silent=True) can hand to gerar_pdf.
PdfBodies ==
    {Null, Num(0), Num(5), Str(<<"x">>), List(<<>>), List(<<Num(1)>>)}
        \cup LogBodies \cup FieldBodies \cup ThroughputBodies

\* lines 391-393: the body is whatever get_json(silent=True) returns.
GerarPdfStart ==
    /\ ppc = "idle"
    /\ \E body \in PdfBodies :
        /\ pdados' = body
        /\ IF ~Truthy(body)
           THEN ppc' = "done" /\ outcome' = Json400
           ELSE ppc' = "assemble" /\ UNCHANGED outcome
    /\ UNCHANGED elementos
    /\ UNCHANGED storeVars

\* line 401, outside the try of line 402: an exception of the assembler
\* leaves the handler.
GerarPdfAssemble ==
    /\ ppc = "assemble"
    /\ LET r == BuildPdfElements(pdados)
       IN IF r.raised
          THEN ppc' = "done" /\ outcome' = Unhandled(r.exc) /\ UNCHANGED elementos
          ELSE ppc' = "build" /\ elementos' = r.elements /\ UNCHANGED outcome
    /\ UNCHANGED pdados
    /\ UNCHANGED storeVars

\* lines 402-414: doc.build(elementos) of the PDF library either lays the
\* blocks out or raises, and the raise is caught.
GerarPdfBuild(built) ==
    /\ ppc = "build"
    /\ ppc' = "done"
    /\ outcome' = IF built THEN PdfFile ELSE Json500
    /\ UNCHANGED <<pdados, elementos>>
    /\ UNCHANGED storeVars

\* The request is over; the handler keeps nothing.
GerarPdfEnd ==
    /\ ppc = "done"
    /\ ppc' = "idle"
    /\ pdados' = Null
    /\ elementos' = <<>>
    /\ outcome' = NoOutcome
    /\ UNCHANGED storeVars

PdfNext ==
    \/ GerarPdfStart
    \/ GerarPdfAssemble
    \/ \E built \in BOOLEAN : GerarPdfBuild(built)
    \/ GerarPdfEnd

PdfSpec == Init /\ [][PdfNext]_vars

(***************************************************************************)
(* Claims about the record store.                                          *)
(***************************************************************************)
InProgress == {t \in Threads : pc[t] # "idle"}

\* The store is exactly the accepted saves so far, in arrival order, the
\* k-th with id k.
StoreIsSubmittedPrefix ==
    /\ Len(registros_producao) + Cardinality(InProgress) = Len(submitted)
    /\ \A k \in 1..Len(registros_producao) :
           registros_producao[k] = Registro(k, submitted[k])

\* A get-by-id answered when the list had n records returns the id-th
\* submitted record for id in 1..n, and 404 otherwise.
GetReturnsKth ==
    last.endpoint = "registro" =>
        IF last.id \in 1..last.at
        THEN /\ last.resp.status = 200
             /\ last.resp.registro = Registro(last.id, submitted[last.id])
        ELSE last.resp = Resp404

\* A list answered when the list had n records returns all n, in order.
ListReturnsAll ==
    last.endpoint = "listar-registros" =>
        /\ last.resp.total = last.at
        /\ last.resp.registros = [k \in 1..last.at |-> Registro(k, submitted[k])]

\* The list changes only in the step that completes an accepted save, and
\* then by one record appended at its end.
StoreChangesOnlyBySave ==
    registros_producao' # registros_producao =>
        \E t \in Threads :
            /\ pc[t] = "salvar_append" /\ pc'[t] = "idle"
            /\ Len(registros_producao') = Len(registros_producao) + 1
            /\ SubSeq(registros_producao', 1, Len(registros_producao))
                   = registros_producao

\* C5: after sequentially executed save, list and get requests the store
\* holds exactly the accepted records in submission order, the k-th saved
\* record has id k, get-by-id k returns the k-th submitted record, and list
\* and get never change the store.
C5_SequentialStore ==
    /\ [](StoreIsSubmittedPrefix /\ GetReturnsKth /\ ListReturnsAll)
    /\ [][StoreChangesOnlyBySave]_vars

\* Three records were saved one after the other and the second was fetched.
C5_Witness ==
    /\ submitted = <<RecA, RecB, RecA>>
    /\ Len(registros_producao) = 3
    /\ last.endpoint = "registro" /\ last.id = 2 /\ last.at = 3
    /\ last.resp.status = 200 /\ last.resp.registro = Registro(2, RecB)

\* C6: under any interleaving of concurrent saves no two stored records
\* have the same id, and the id a save answers with is the id of the record
\* that request stored.
C6_UniqueIdsUnderConcurrency ==
    /\ \A i, j \in 1..Len(registros_producao) :
           i # j => registros_producao[i].id # registros_producao[j].id
    /\ (last.endpoint = "salvar-registro" /\ last.resp.status = 201) =>
           registros_producao[last.at + 1] = Registro(last.resp.id, last.body)

\* The body of a request is absent (get_json gave None) or an empty
\* object or array.
AbsentOrEmpty(body) ==
    \/ body.t = "null"
    \/ body.t = "obj" /\ DOMAIN body.v = {}
    \/ body.t = "list" /\ body.v = <<>>

\* A save with an absent or empty body is answered 400 "no data provided";
\* a save with a non-empty body is answered 201.
SaveAnswer ==
    last.endpoint = "salvar-registro" =>
        IF AbsentOrEmpty(last.body)
        THEN last.resp = Resp400
        ELSE last.resp.status = 201 /\ last.resp.success

\* A rejected save leaves the list (and every handler) as it was; an
\* accepted one appends exactly one record, in its last step.
SaveFrame ==
    /\ (last' # last /\ last'.endpoint = "salvar-registro"
           /\ last'.resp.status = 400) =>
            /\ registros_producao' = registros_producao
            /\ pc' = pc
            /\ last'.at = Len(registros_producao')
    /\ \A t \in Threads :
        /\ (pc[t] = "idle" /\ pc'[t] = "idle") =>
               (registros_producao' = registros_producao
                    \/ \E u \in Threads : pc[u] # "idle" /\ pc'[u] = "idle")
        /\ (pc[t] = "idle" /\ pc'[t] # "idle") =>
               /\ pc'[t] = "salvar_len" /\ ~AbsentOrEmpty(dados'[t])
               /\ registros_producao' = registros_producao
        /\ (pc[t] = "salvar_len" /\ pc'[t] # "salvar_len") =>
               /\ pc'[t] = "salvar_append"
               /\ registros_producao' = registros_producao
        /\ (pc[t] = "salvar_append" /\ pc'[t] # "salvar_append") =>
               /\ pc'[t] = "idle"
               /\ Len(registros_producao') = Len(registros_producao) + 1
               /\ registros_producao'[Len(registros_producao')].dados = dados[t]
               /\ last'.endpoint = "salvar-registro"
               /\ last'.resp.status = 201

TableIdx(els, name) ==
    {i \in 1..Len(els) : els[i].k = "Table" /\ els[i].name = name}

HasTable(els, name) == TableIdx(els, name) # {}

TableRows(els, name) == els[CHOOSE i \in TableIdx(els, name) : TRUE].rows

\* The body is an object whose stoppage log is a list of objects.
LogIsList(d) ==
    /\ d.t = "obj"
    /\ Paradas(d).t = "list"
    /\ \A i \in 1..Len(Paradas(d).v) : Paradas(d).v[i].t = "obj"

\* The input supplies no total stoppage time, so the assembler computes it.
ComputesTempoTotal(d) ==
    LET resumo == PyOr(DictGet(d, "resumoParadas", Null), EmptyObj)
    IN resumo.t # "obj" \/ DictGet(resumo, "tempoTotalParadas", Null).t = "null"

\* The minutes of a log, an entry whose duration does not parse counting 0.
RECURSIVE SomaMinutos(_, _)
SomaMinutos(ps, i) ==
    IF i > Len(ps) THEN 0 ELSE ParadaMinutes(ps[i]) + SomaMinutos(ps, i + 1)

\* The body is an object in which silos, paradas and checklist are absent
\* or lists of objects and every reason is absent or a string: at most the
\* values of scalar fields are malformed.
ListOfObjects(x) ==
    x.t = "null" \/ (x.t = "list" /\ \A i \in 1..Len(x.v) : x.v[i].t = "obj")

WellFormedLists(d) ==
    /\ d.t = "obj"
    /\ \A k \in {"silos", "paradas", "checklist"} :
           ListOfObjects(DictGet(d, k, Null))
    /\ \A i \in 1..Len(Paradas(d).v) :
           DictGet(Paradas(d).v[i], "motivo", Empty).t = "str"

\* C1: for every non-empty JSON object, whatever fields are present,
\* absent, empty or malformed (a stoppage duration that is no HH:MM string
\* included), the assembler returns without raising and the first block it
\* returns is the Title block.  Stated for the objects whose lists are
\* well formed, where only field values can be malformed.
C1_AssemblerNeverRaises ==
    (Truthy(pdados) /\ WellFormedLists(pdados)) =>
        /\ outcome.kind # "exception"
        /\ ppc = "build" => (Len(elementos) > 0 /\ elementos[1] = Title)

\* C2: in every stoppage total the assembler computes, an entry whose
\* duration does not parse as HH:MM counts 0 minutes and the other entries
\* are still summed: the breakdown total and the total stoppage time of the
\* summary row are both the sum of the parsable durations.  Stated for the
\* logs whose durations are strings.
C2_UnparsableDurationCountsZero ==
    (ppc \in {"build", "done"} /\ Truthy(pdados) /\ WellFormedLists(pdados)
         /\ ComputesTempoTotal(pdados)
         /\ \A i \in 1..Len(Paradas(pdados).v) :
                DictGet(Paradas(pdados).v[i], "duracao", Empty).t = "str") =>
        LET ps == Paradas(pdados).v
        IN /\ Distribuicao(ps).total_minutes = SomaMinutos(ps, 1)
           /\ outcome.kind # "exception"
           /\ ppc = "build" =>
                  TableRows(elementos, "resumo")[2][3].tempo_total_paradas
                      = Str(FmtHHMM(SomaMinutos(ps, 1)))

\* C3: a request to the PDF endpoint with a non-empty body ends either in
\* the binary PDF or in the 500 JSON build-failure answer; no exception
\* raised while assembling or rendering leaves the handler.  Stated for
\* the bodies that are objects with well-formed lists.
C3_PdfOrJson500 ==
    (ppc = "done" /\ Truthy(pdados) /\ WellFormedLists(pdados)) =>
        outcome \in {PdfFile, Json500}

\* C4: a body that is not an object is rejected before the assembler is
\* called; the assembler only ever runs on a mapping.
C4_AssemblerOnlyGetsObjects ==
    ppc = "assemble" => pdados.t = "obj"

\* C8: in the assembled output the stoppage-log table is present exactly
\* when the stoppage log is non-empty, and the breakdown table exactly when
\* the log is non-empty and its summed minutes are greater than 0.
C8_OmissionLaw ==
    ppc = "build" =>
        LET paradas == Paradas(pdados)
        IN /\ HasTable(elementos, "paradas") <=> Truthy(paradas)
           /\ HasTable(elementos, "distrib") <=>
                  (Truthy(paradas) /\ SomaMinutos(paradas.v, 1) > 0)
           /\ Cardinality(TableIdx(elementos, "paradas")) <= 1
           /\ Cardinality(TableIdx(elementos, "distrib")) <= 1

\* A non-empty log whose minutes sum to 0: the log table without the
\* breakdown table.
C8_Witness ==
    /\ ppc = "build"
    /\ Len(Paradas(pdados).v) = 2
    /\ HasTable(elementos, "paradas")
    /\ ~HasTable(elementos, "distrib")

\* The reason of an entry as the breakdown groups it: the placeholder for a
\* missing or empty reason.
ReasonKey(p) ==
    IF "motivo" \notin DOMAIN p.v THEN SemMotivo
    ELSE IF p.v.motivo.t = "str" /\ p.v.motivo.v = <<>> THEN SemMotivo
    ELSE p.v.motivo

\* The positions at which a reason occurs for the first time.
FirstSeen(ps) ==
    {i \in 1..Len(ps) : \A j \in 1..(i - 1) : ReasonKey(ps[j]) # ReasonKey(ps[i])}

\* The minutes of the entries of one reason.
RECURSIVE SomaDoMotivo(_, _, _)
SomaDoMotivo(ps, key, i) ==
    IF i > Len(ps) THEN 0
    ELSE (IF ReasonKey(ps[i]) = key THEN ParadaMinutes(ps[i]) ELSE 0)
             + SomaDoMotivo(ps, key, i + 1)

ScenarioB ==
    Obj([paradas |-> List(<<
        Obj([motivo |-> Falha, duracao |-> Str(<<"0", "1", ":", "3", "0">>)]),
        Obj([motivo |-> Falha, duracao |-> Str(<<"0", "0", ":", "3", "0">>)])>>)])

\* C9: an emitted breakdown table has one row per distinct reason (the
\* placeholder standing for a missing or empty one), in the order the
\* reasons are first met in the log, each with the HH:MM total of the
\* minutes of its entries; Falha 01:30 and Falha 00:30 give the single row
\* Falha, 02:00, 100.00%.
C9_BreakdownRows ==
    (ppc = "build" /\ HasTable(elementos, "distrib")) =>
        LET ps == Paradas(pdados).v
            rows == Tail(TableRows(elementos, "distrib"))
            first == FirstSeen(ps)
        IN /\ Len(rows) = Cardinality(first)
           /\ \A i \in first :
                  LET r == Cardinality({j \in first : j <= i})
                  IN /\ rows[r][1] = ReasonKey(ps[i])
                     /\ rows[r][2] =
                            Str(FmtHHMM(SomaDoMotivo(ps, ReasonKey(ps[i]), 1)))
           /\ pdados = ScenarioB =>
                  rows = << <<Falha, Str(<<"0", "2", ":", "0", "0">>),
                              Str(<<"1", "0", "0", ".", "0", "0", "%">>)>> >>

\* The report of scenario B has been assembled.
C9_Witness ==
    /\ ppc = "build"
    /\ pdados = ScenarioB
    /\ Len(TableRows(elementos, "distrib")) = 2

\* Reading back what the table prints: "HH:MM" as minutes and "x.yz%" as
\* hundredths of a percent.
ReadHHMM(s) ==
    LET parts == Split(s, ":") IN IntVal(parts[1]) * 60 + IntVal(parts[2])

ReadPerc(s) ==
    LET neg == s[1] = "-"
        body == SubSeq(s, IF neg THEN 2 ELSE 1, Len(s) - 1)
        parts == Split(body, ".")
        a == DigitsVal(parts[1], 1, 0) * 100 + DigitsVal(parts[2], 1, 0)
    IN IF neg THEN 0 - a ELSE a

RECURSIVE SumRowMinutes(_, _)
SumRowMinutes(rows, i) ==
    IF i > Len(rows) THEN 0
    ELSE ReadHHMM(rows[i][2].v) + SumRowMinutes(rows, i + 1)

RECURSIVE SumRowPerc(_, _)
SumRowPerc(rows, i) ==
    IF i > Len(rows) THEN 0
    ELSE ReadPerc(rows[i][3].v) + SumRowPerc(rows, i + 1)

RECURSIVE SumPerc(_, _, _)
SumPerc(motivos, total, i) ==
    IF i > Len(motivos) THEN 0
    ELSE PercHundredths(motivos[i].mins, total) + SumPerc(motivos, total, i + 1)

RECURSIVE SumMotivoMins(_, _)
SumMotivoMins(motivos, i) ==
    IF i > Len(motivos) THEN 0
    ELSE motivos[i].mins + SumMotivoMins(motivos, i + 1)

Abs(n) == IF n < 0 THEN 0 - n ELSE n

\* C10: for a non-empty log whose total minutes are greater than 0 the
\* per-reason minutes of the breakdown sum exactly to the total minutes,
\* and the printed percentages sum to 100.00 within the rounding of two
\* decimals (half a hundredth for each row).
C10_PercentageLaw ==
    /\ (ppc \in {"assemble", "build"} /\ LogIsList(pdados)
            /\ Distribuicao(Paradas(pdados).v).raised = FALSE
            /\ Distribuicao(Paradas(pdados).v).total_minutes > 0) =>
           LET dist == Distribuicao(Paradas(pdados).v)
           IN /\ SumMotivoMins(dist.motivos, 1) = dist.total_minutes
              /\ 2 * Abs(SumPerc(dist.motivos, dist.total_minutes, 1) - 10000)
                     <= Len(dist.motivos)
    /\ (ppc = "build" /\ HasTable(elementos, "distrib")) =>
           LET rows == Tail(TableRows(elementos, "distrib"))
               total == SomaMinutos(Paradas(pdados).v, 1)
           IN /\ total > 0
              /\ SumRowMinutes(rows, 1) = total
              /\ 2 * Abs(SumRowPerc(rows, 1) - 10000) <= Len(rows)

\* Two reasons with 20 and 90 minutes: 18.18% and 81.82%.
C10_Witness ==
    /\ ppc = "build"
    /\ HasTable(elementos, "distrib")
    /\ LET rows == Tail(TableRows(elementos, "distrib"))
       IN /\ Len(rows) = 2
          /\ rows[1][3] = Str(<<"1", "8", ".", "1", "8", "%">>)
          /\ rows[2][3] = Str(<<"8", "1", ".", "8", "2", "%">>)

(***************************************************************************)
(* The throughput cell of the operational summary.                         *)
(***************************************************************************)
\* The fourth cell of the single data row of the summary table.
ThroughputCell(els) == TableRows(els, "resumo")[2][4]

\* A field that is absent, null, 0 or empty.
Blank(x) ==
    \/ x.t = "null"
    \/ x.t = "num" /\ x.v = 0
    \/ x.t \in {"str", "list"} /\ x.v = <<>>
    \/ x.t = "obj" /\ DOMAIN x.v = {}

\* No throughput-per-hour value comes with the input.
ThroughputNotSupplied(d) == DictGet(d, "producaoPorHora", Null).t = "null"

\* The production total the summary reads: the numeric field, else the
\* legacy field, else nothing.
TotalRead(d) ==
    LET ton == DictGet(d, "toneladas", Null)
        leg == DictGet(d, "producaoTotal", Null)
    IN IF Blank(ton) /\ Blank(leg) THEN Null
       ELSE IF Blank(ton) THEN leg ELSE ton

\* The production total is a number, or a string that reads as one.
TotalIsNumeric(x) == x.t \in {"num", "str"} /\ FloatOf(x).ok

\* The minutes of the effective time, -1 when it is no "h:m" of two
\* integers; an absent effective time is "00:00".
EffectiveMinutes(d) ==
    LET te == DictGet(d, "tempoEfetivo", Null)
    IN IF Blank(te) THEN 0
       ELSE IF te.t # "str" THEN 0 - 1
       ELSE LET parts == Split(te.v, ":")
            IN IF Len(parts) = 2 /\ IntOk(parts[1]) /\ IntOk(parts[2])
               THEN IntVal(parts[1]) * 60 + IntVal(parts[2])
               ELSE 0 - 1

\* s is an optional '-', digits, '.', two digits.
IsFixed2(s) ==
    LET body == IF Len(s) > 0 /\ s[1] = "-" THEN Tail(s) ELSE s
        parts == Split(body, ".")
    IN Len(parts) = 2 /\ AllDigits(parts[1]) /\ AllDigits(parts[2])
           /\ Len(parts[2]) = 2

ReadFixed2(s) == ReadPerc(Append(s, "%"))

\* cell prints x / (mins / 60) to two decimals: within half a hundredth of
\* the exact quotient, an infinite or undefined x printed as inf or nan.
IsQuotient(cell, x, mins) ==
    /\ cell.t = "str"
    /\ LET pt == FloatOf(x)
       IN CASE pt.kind = "nan" -> cell.v = <<"n", "a", "n">>
            [] pt.kind = "inf" ->
                   cell.v = (IF pt.neg THEN <<"-">> ELSE <<>>) \o <<"i", "n", "f">>
            [] pt.kind = "fin" ->
                   /\ IsFixed2(cell.v)
                   /\ LET exact == (IF pt.neg THEN 0 - pt.num ELSE pt.num) * 6000
                          den == pt.den * mins
                      IN 2 * Abs(ReadFixed2(cell.v) * den - exact) <= den

\* C11 as stated: whenever no throughput-per-hour value is supplied, the
\* throughput cell of the summary row is the production total divided by
\* the effective hours, to two decimals, when the effective time parses to
\* more than zero hours and the production total is numeric, and it is
\* "0.00" in every other case (production total absent included).
C11_ThroughputDerivedOrZero ==
    (ppc = "build" /\ ThroughputNotSupplied(pdados)) =>
        LET cell == ThroughputCell(elementos)
            total == TotalRead(pdados)
            mins == EffectiveMinutes(pdados)
        IN IF mins > 0 /\ TotalIsNumeric(total)
           THEN IsQuotient(cell, total, mins)
           ELSE cell = ZeroZeroZero

\* C11 amended: whenever no throughput-per-hour value is supplied, the
\* throughput cell is "-" when the production total is absent or empty;
\* otherwise it is the production total divided by the effective hours, to
\* two decimals, when the effective time parses to more than zero hours
\* and the production total is numeric, and "0.00" in every other case.
C11_ThroughputDerivedDashOrZero ==
    (ppc = "build" /\ ThroughputNotSupplied(pdados)) =>
        LET cell == ThroughputCell(elementos)
            total == TotalRead(pdados)
            mins == EffectiveMinutes(pdados)
        IN IF Blank(total) THEN cell = Lit("-")
           ELSE IF mins > 0 /\ TotalIsNumeric(total)
           THEN IsQuotient(cell, total, mins)
           ELSE cell = ZeroZeroZero

\* 100 t in 01:30 of effective time: 66.67 t/h.
C11_Witness ==
    /\ ppc = "build"
    /\ ThroughputNotSupplied(pdados)
    /\ DictGet(pdados, "toneladas", Null) = Num(100)
    /\ DictGet(pdados, "tempoEfetivo", Null) = Str(<<"0", "1", ":", "3", "0">>)
    /\ ThroughputCell(elementos) = Str(<<"6", "6", ".", "6", "7">>)

(***************************************************************************)
(* The two computations of the total stoppage time.                        *)
(***************************************************************************)
\* The total stoppage time inside the third cell of the summary row.
SummaryTempoTotal(els) == TableRows(els, "resumo")[2][3].tempo_total_paradas

\* The sum of the per-reason totals the breakdown accumulates over the log.
BreakdownTotal(d) == SumMotivoMins(Distribuicao(Paradas(d).v).motivos, 1)

\* C12: for every stoppage log for which the assembler returns and the
\* input supplies no precomputed total stoppage time, the total stoppage
\* time printed in the summary row equals the sum of the per-reason totals
\* of the breakdown: both computations give every duration string the same
\* minutes, malformed ones such as "1:2:3" or "5" included.
C12_SummaryTotalIsBreakdownTotal ==
    (ppc = "build" /\ LogIsList(pdados) /\ ComputesTempoTotal(pdados)) =>
        SummaryTempoTotal(elementos) = Str(FmtHHMM(BreakdownTotal(pdados)))

====
